---- MODULE Spec2Model ----
(***************************************************************************)
(* turfpy/transformation.py: circle, polygon_difference and the helper     *)
(* _remove_empty_polygon, as a state machine in which a caller makes one   *)
(* call at a time and every collaborator call (destination, area,          *)
(* flatten_each, compute) may raise.                                       *)
(*                                                                         *)
(* Python values are records with a "type" field (None, dict, the geojson  *)
(* objects), Python lists are sequences.  A position is <<x, y>>, a ring   *)
(* is a sequence of positions, a Polygon's coordinates are a sequence of   *)
(* rings and a MultiPolygon's coordinates a sequence of such sequences.    *)
(***************************************************************************)
EXTENDS Integers, Sequences, FiniteSets, TLC

VARIABLES pc, call, result

vars == <<pc, call, result>>

-----------------------------------------------------------------------------
(* Bounds of the inputs the caller draws.                                  *)

\* polygons are drawn on a strip of NumCells unit squares
NumCells == 4
\* a MultiPolygon argument holds at most MaxParts sub-polygons
MaxParts == 2
\* circle is called with -MaxRadius <= radius <= MaxRadius
MaxRadius == 3
\* circle is called with 0 <= steps <= MaxSteps
MaxSteps == 4

-----------------------------------------------------------------------------
(* Python values.                                                          *)

None == [type |-> "None"]

\* a dict, as its set of <<key, value>> items
Dict(items) == [type |-> "dict", items |-> items]

\* bool(v) for the values the module tests with "not": None is false, an
\* empty dict is false, every geojson object (a dict with a "type" key) is
\* true
Truthy(v) ==
    CASE v.type = "None" -> FALSE
      [] v.type = "dict" -> v.items # {}
      [] OTHER -> TRUE

\* an exception raised by Python itself
PyError(name) == [type |-> "Error", raisedBy |-> name, at |-> 0]

\* how a call ends: a returned value or a raised exception, with the log of
\* the collaborator calls made until then
Ok(v, calls) == [kind |-> "return", value |-> v, calls |-> calls]

Err(e, calls) == [kind |-> "raise", error |-> e, calls |-> calls]

-----------------------------------------------------------------------------
(* Collaborator calls.  fail is the index, in the order of execution, of   *)
(* the collaborator call that raises (0: none does).                       *)

Invoke(fn, args, calls) == Append(calls, [fn |-> fn, args |-> args])

\* the call just logged is the one that raises
Failed(calls, fail) == Len(calls) = fail

\* the exception the collaborator raises in the last logged call
CollabError(calls) ==
    [type |-> "Error", raisedBy |-> calls[Len(calls)].fn, at |-> Len(calls)]

-----------------------------------------------------------------------------
(* geojson objects.                                                        *)

\* Point(coordinates)
Point(coordinates) == [type |-> "Point", coordinates |-> coordinates, extra |-> {}]

\* Polygon(coordinates, **extra): the coordinates are stored as given
Polygon(coordinates, extra) ==
    [type |-> "Polygon", coordinates |-> coordinates, extra |-> extra]

\* MultiPolygon(coordinates, **extra): the coordinates are stored as given
MultiPolygon(coordinates, extra) ==
    [type |-> "MultiPolygon", coordinates |-> coordinates, extra |-> extra]

\* geojson's Feature(id=None, geometry=None, properties=None): positional
\* arguments bind in this order; a falsy geometry is stored as None and
\* falsy properties as {}; the id key is set only when id is not None
Feature(id, geometry, properties) ==
    [type |-> "Feature",
     id |-> id,
     geometry |-> IF Truthy(geometry) THEN geometry ELSE None,
     properties |-> IF Truthy(properties) THEN properties ELSE Dict({})]

-----------------------------------------------------------------------------
(* Arithmetic: Python's true division of integers, kept exact as a reduced *)
(* fraction <<numerator, denominator>> with a positive denominator.        *)

Abs(x) == IF x < 0 THEN -x ELSE x

RECURSIVE GCD(_, _)
GCD(a, b) == IF b = 0 THEN a ELSE GCD(b, a % b)

\* n / d for d # 0
TrueDiv(n, d) ==
    LET g == GCD(Abs(n), Abs(d))
        s == IF d < 0 THEN -1 ELSE 1
    IN  <<(s * n) \div g, (s * d) \div g>>

-----------------------------------------------------------------------------
(* The collaborators, as the interfaces the module consumes.  Geometry is  *)
(* planar: a polygon's ring is an axis-parallel rectangle over whole unit  *)
(* squares ("cells") of a strip of height 1; cell c is the square between  *)
(* x = c - 1 and x = c.                                                    *)

\* the closed ring around cells lo + 1 .. hi
Rect(lo, hi) == << <<lo, 0>>, <<hi, 0>>, <<hi, 1>>, <<lo, 1>>, <<lo, 0>> >>

RECURSIVE Shoelace(_, _)
Shoelace(ring, i) ==
    IF i >= Len(ring) THEN 0
    ELSE ring[i][1] * ring[i + 1][2] - ring[i + 1][1] * ring[i][2]
         + Shoelace(ring, i + 1)

\* the area a ring encloses (the shoelace formula)
RingArea(ring) == Abs(Shoelace(ring, 1)) \div 2

RECURSIVE HolesArea(_, _)
HolesArea(rings, k) ==
    IF k > Len(rings) THEN 0 ELSE RingArea(rings[k]) + HolesArea(rings, k + 1)

\* the area of a Polygon's coordinates: the outer ring less the holes
PolygonArea(rings) ==
    IF rings = <<>> THEN 0 ELSE RingArea(rings[1]) - HolesArea(rings, 2)

RECURSIVE PartsArea(_, _)
PartsArea(parts, k) ==
    IF k > Len(parts) THEN 0 ELSE PolygonArea(parts[k]) + PartsArea(parts, k + 1)

\* turfpy.measurement.area(geometry or feature) -> number
area(x) ==
    LET g == IF x.type = "Feature" THEN x.geometry ELSE x
    IN  CASE g.type = "Polygon" -> PolygonArea(g.coordinates)
          [] g.type = "MultiPolygon" -> PartsArea(g.coordinates, 1)
          [] OTHER -> 0

\* turfpy.meta.flatten_each(multiPolygon, callback): the features the
\* callback is invoked with, one per constituent polygon, in stored order
flatten_each(geom) ==
    [i \in 1..Len(geom.coordinates) |->
        Feature(None, Polygon(geom.coordinates[i], {}), Dict({}))]

\* turfpy.measurement.destination(origin, distance, bearing, options) ->
\* Feature<Point>: an uninterpreted function of the origin, the distance,
\* the bearing and the units, one symbolic term per axis
destination(origin, distance, bearing, options) ==
    LET of == <<origin.coordinates, distance, bearing, options.units>>
    IN  Feature(None,
                Point(<< [axis |-> "x", of |-> of], [axis |-> "y", of |-> of] >>),
                Dict({}))

SetMin(S) == CHOOSE m \in S : \A n \in S : m <= n

SetMax(S) == CHOOSE m \in S : \A n \in S : m >= n

\* the cells a ring encloses
Cells(ring) ==
    LET xs == {ring[i][1] : i \in 1..Len(ring)}
    IN  IF xs = {} THEN {} ELSE (SetMin(xs) + 1)..SetMax(xs)

\* the cells a Polygon or MultiPolygon covers
Region(geom) ==
    CASE geom.type = "Polygon" -> Cells(geom.coordinates[1])
      [] geom.type = "MultiPolygon" ->
            UNION {Cells(geom.coordinates[i][1]) : i \in 1..Len(geom.coordinates)}
      [] OTHER -> {}

\* the boundary rings of a set of cells: one per maximal run, left to right
RECURSIVE Contours(_)
Contours(region) ==
    IF region = {} THEN <<>>
    ELSE LET lo == SetMin(region)
             hi == SetMax({h \in region : lo..h \subseteq region})
         IN  <<Rect(lo - 1, hi)>> \o Contours(region \ (lo..hi))

\* martinez.boolean.compute(geomA, geomB, operationType) -> an object whose
\* contours are the boundary of the exact boolean combination
compute(geomA, geomB, operationType) ==
    LET A == Region(geomA)
        B == Region(geomB)
        R == CASE operationType = "DIFFERENCE" -> A \ B
               [] operationType = "UNION" -> A \cup B
               [] operationType = "INTERSECTION" -> A \cap B
               [] operationType = "XOR" -> (A \ B) \cup (B \ A)
    IN  [type |-> "martinez.Polygon", contours |-> Contours(R)]

-----------------------------------------------------------------------------
(* circle                                                                  *)

\* variant: the turn divided by the number of steps
bearing_by_steps(i, radius, steps) == TrueDiv(i * (-360), steps)

\* bearing = i * -360 / radius (radius # 0); steps is in scope and unused
bearing(i, radius, steps) == TrueDiv(i * (-360), radius)

\* the loop "for i in range(steps)" from iteration i on
RECURSIVE circle_loop(_, _, _, _, _, _, _, _)
circle_loop(i, coordinates, calls, center, radius, steps, options, fail) ==
    IF i >= steps THEN Ok(coordinates, calls)
    ELSE IF radius = 0 THEN Err(PyError("ZeroDivisionError"), calls)
    ELSE LET b == bearing(i, radius, steps)
             c == Invoke("destination", <<center, radius, b, options>>, calls)
             pt == destination(center, radius, b, options)
             cords == pt.geometry.coordinates
         IN  IF Failed(c, fail) THEN Err(CollabError(c), c)
             ELSE circle_loop(i + 1, Append(coordinates, cords), c,
                              center, radius, steps, options, fail)

\* the end of circle: close the list and build the Polygon from it
circle_close(coordinates, kwargs) ==
    Polygon(Append(coordinates, coordinates[1]), kwargs.items)

circle(center, radius, steps, units, kwargs, fail) ==
    LET options == [steps |-> steps, units |-> units, extra |-> kwargs.items]
        loop == circle_loop(0, <<>>, <<>>, center, radius, steps, options, fail)
    IN  IF loop.kind = "raise" THEN loop
        ELSE IF loop.value = <<>> THEN Err(PyError("IndexError"), loop.calls)
        ELSE Ok(circle_close(loop.value, kwargs), loop.calls)

-----------------------------------------------------------------------------
(* _remove_empty_polygon                                                   *)

\* variant: the threshold itself counts as non-empty
remove_empty_Polygon_ge(geom, calls, fail) ==
    LET c == Invoke("area", <<geom>>, calls)
    IN  IF Failed(c, fail) THEN Err(CollabError(c), c)
        ELSE Ok(IF area(geom) >= 1 THEN geom ELSE None, c)

\* variant: a failure of area is caught and the polygon taken as empty
remove_empty_Polygon_swallow(geom, calls, fail) ==
    LET c == Invoke("area", <<geom>>, calls)
    IN  IF Failed(c, fail) THEN Ok(None, c)
        ELSE Ok(IF area(geom) > 1 THEN geom ELSE None, c)

\* the Polygon branch: return geom if area(geom) > 1 else None
remove_empty_Polygon(geom, calls, fail) ==
    LET c == Invoke("area", <<geom>>, calls)
    IN  IF Failed(c, fail) THEN Err(CollabError(c), c)
        ELSE Ok(IF area(geom) > 1 THEN geom ELSE None, c)

\* variant: the kept coordinates are put in front
_flatten_each_callback_prepend(feature, coordinates) ==
    IF area(feature) > 1
    THEN <<feature.geometry.coordinates>> \o coordinates
    ELSE coordinates

\* the callback, after area(feature) returned: the list it leaves
_flatten_each_callback(feature, coordinates) ==
    IF area(feature) > 1
    THEN Append(coordinates, feature.geometry.coordinates)
    ELSE coordinates

\* flatten_each invoking the callback on features[i], features[i + 1], ...
RECURSIVE flatten_each_loop(_, _, _, _, _)
flatten_each_loop(features, i, coordinates, calls, fail) ==
    IF i > Len(features) THEN Ok(coordinates, calls)
    ELSE LET c == Invoke("area", <<features[i]>>, calls)
         IN  IF Failed(c, fail) THEN Err(CollabError(c), c)
             ELSE flatten_each_loop(features, i + 1,
                                    _flatten_each_callback(features[i], coordinates),
                                    c, fail)

\* variant: the dict is returned also when nothing was kept
remove_empty_MultiPolygon_always(coordinates) ==
    [type |-> "MultiPolygon", coordinates |-> coordinates]

\* the end of the MultiPolygon branch: a plain dict, or nothing (None)
remove_empty_MultiPolygon(coordinates) ==
    IF coordinates # <<>>
    THEN [type |-> "MultiPolygon", coordinates |-> coordinates]
    ELSE None

_remove_empty_polygon(geom, calls, fail) ==
    IF geom.type = "Polygon" THEN remove_empty_Polygon(geom, calls, fail)
    ELSE IF geom.type = "MultiPolygon"
    THEN LET c == Invoke("flatten_each", <<geom>>, calls)
         IN  IF Failed(c, fail) THEN Err(CollabError(c), c)
             ELSE LET loop == flatten_each_loop(flatten_each(geom), 1, <<>>, c, fail)
                  IN  IF loop.kind = "raise" THEN loop
                      ELSE Ok(remove_empty_MultiPolygon(loop.value), loop.calls)
    ELSE Ok(None, calls)

-----------------------------------------------------------------------------
(* polygon_difference                                                      *)

\* variant: no test for an empty contour list
difference_result_no_empty_case(differenced, properties) ==
    IF Len(differenced.contours) = 1
    THEN Polygon(differenced.contours, {})
    ELSE MultiPolygon(differenced, {})

\* what is returned for the clipping result.  One contour: a Polygon (a
\* geometry, no Feature) of the contours, the second positional argument
\* being an option of the constructor and no member.  More: a MultiPolygon
\* whose coordinates are the result object itself, not its contours.
difference_result(differenced, properties) ==
    IF Len(differenced.contours) = 0 THEN None
    ELSE IF Len(differenced.contours) = 1
    THEN Polygon(differenced.contours, {})
    ELSE MultiPolygon(differenced, {})

\* variant: polygon2 is tested before polygon1
difference_empty_cases_swapped(geom1, geom2, properties) ==
    IF ~Truthy(geom2)
    THEN [do |-> "return", value |-> Feature(geom1, properties, None)]
    ELSE IF ~Truthy(geom1) THEN [do |-> "return", value |-> None]
    ELSE [do |-> "clip"]

\* the two emptiness tests, after both arguments were normalized:
\* "return" with the value, or "clip" to go on to compute
difference_empty_cases(geom1, geom2, properties) ==
    IF ~Truthy(geom1) THEN [do |-> "return", value |-> None]
    ELSE IF ~Truthy(geom2)
    THEN [do |-> "return", value |-> Feature(geom1, properties, None)]
    ELSE [do |-> "clip"]

polygon_difference(polygon1, polygon2, fail) ==
    LET properties == Dict({})
        r1 == _remove_empty_polygon(polygon1, <<>>, fail)
    IN  IF r1.kind = "raise" THEN r1
        ELSE LET r2 == _remove_empty_polygon(polygon2, r1.calls, fail)
             IN  IF r2.kind = "raise" THEN r2
                 ELSE LET geom1 == r1.value
                          geom2 == r2.value
                          early == difference_empty_cases(geom1, geom2, properties)
                          c == Invoke("compute", <<geom1, geom2, "DIFFERENCE">>, r2.calls)
                      IN  IF early.do = "return" THEN Ok(early.value, r2.calls)
                          ELSE IF Failed(c, fail) THEN Err(CollabError(c), c)
                          ELSE Ok(difference_result(
                                      compute(geom1, geom2, "DIFFERENCE"), properties), c)

-----------------------------------------------------------------------------
(* The arguments a caller passes.                                          *)

ValidRings == {Rect(lo, hi) : <<lo, hi>> \in {p \in (0..NumCells) \X (0..NumCells) : p[1] < p[2]}}

PolygonArgs == {Polygon(<<r>>, {}) : r \in ValidRings}

\* the sub-polygons of a MultiPolygon do not overlap
Disjoint(parts) ==
    \A i, j \in 1..Len(parts) :
        i < j => Cells(parts[i][1]) \cap Cells(parts[j][1]) = {}

MultiPolygonArgs ==
    {MultiPolygon(parts, {}) :
        parts \in {q \in UNION {[1..n -> {<<r>> : r \in ValidRings}] : n \in 0..MaxParts} :
                      Disjoint(q)}}

\* a geometry of another type
OtherArgs == {Point(<<0, 0>>)}

Geoms == PolygonArgs \cup MultiPolygonArgs \cup OtherArgs

Centers == {Point(<<0, 0>>), Point(<<1, 2>>)}

Units == {"km", "mi"}

Kwargs == {Dict({}), Dict({<<"name", "c">>})}

-----------------------------------------------------------------------------
(* The state machine: the caller is idle or holds the outcome of the call  *)
(* it made.                                                                *)

NoCall == [fn |-> "none"]

NoResult == [kind |-> "none"]

Init ==
    /\ pc = "idle"
    /\ call = NoCall
    /\ result = NoResult

\* circle(center, radius, steps, units, **kwargs)
Circle ==
    /\ pc = "idle"
    /\ \E center \in Centers, radius \in (-MaxRadius)..MaxRadius,
          steps \in 0..MaxSteps, units \in Units, kwargs \in Kwargs :
         \E fail \in 0..Len(circle(center, radius, steps, units, kwargs, 0).calls) :
            /\ call' = [fn |-> "circle", center |-> center, radius |-> radius,
                        steps |-> steps, units |-> units, kwargs |-> kwargs,
                        fail |-> fail]
            /\ result' = circle(center, radius, steps, units, kwargs, fail)
    /\ pc' = "done"

\* polygon_difference(polygon1, polygon2)
PolygonDifference ==
    /\ pc = "idle"
    /\ \E polygon1 \in Geoms, polygon2 \in Geoms :
         \E fail \in 0..Len(polygon_difference(polygon1, polygon2, 0).calls) :
            /\ call' = [fn |-> "polygon_difference", polygon1 |-> polygon1,
                        polygon2 |-> polygon2, fail |-> fail]
            /\ result' = polygon_difference(polygon1, polygon2, fail)
    /\ pc' = "done"

\* _remove_empty_polygon(geom)
RemoveEmptyPolygon ==
    /\ pc = "idle"
    /\ \E geom \in Geoms :
         \E fail \in 0..Len(_remove_empty_polygon(geom, <<>>, 0).calls) :
            /\ call' = [fn |-> "_remove_empty_polygon", geom |-> geom, fail |-> fail]
            /\ result' = _remove_empty_polygon(geom, <<>>, fail)
    /\ pc' = "done"

\* the caller takes the outcome and is free to call again
Done ==
    /\ pc = "done"
    /\ pc' = "idle"
    /\ call' = NoCall
    /\ result' = NoResult

Next == Circle \/ PolygonDifference \/ RemoveEmptyPolygon \/ Done

Spec == Init /\ [][Next]_vars

-----------------------------------------------------------------------------
(* What the properties below speak of, stated on the arguments alone.      *)

\* a call of fn has ended
Ended(fn) == pc = "done" /\ call.fn = fn

\* no collaborator call of the ended call raised
NoFailure == call.fail = 0

IsPolygon(g) == g.type = "Polygon"

IsMultiPolygon(g) == g.type = "MultiPolygon"

\* the indices of the sub-polygons of area > 1
Large(g) == {i \in 1..Len(g.coordinates) : PolygonArea(g.coordinates[i]) > 1}

\* the argument normalizes to empty
NormalizesEmpty(g) ==
    \/ IsPolygon(g) /\ PolygonArea(g.coordinates) <= 1
    \/ IsMultiPolygon(g) /\ Large(g) = {}

\* the argument normalizes to something
NormalizesNonEmpty(g) ==
    \/ IsPolygon(g) /\ PolygonArea(g.coordinates) > 1
    \/ IsMultiPolygon(g) /\ Large(g) # {}

\* the coordinates of the sub-polygons of area > 1, in stored order
Kept(g) == SelectSeq(g.coordinates, LAMBDA rings : PolygonArea(rings) > 1)

\* what a non-empty argument normalizes to
Normalized(g) ==
    IF IsPolygon(g) THEN g ELSE [type |-> "MultiPolygon", coordinates |-> Kept(g)]

\* v is a Feature wrapping a geometry of the given type and coordinates
IsFeatureOf(v, type, coordinates) ==
    /\ v.type = "Feature"
    /\ v.geometry.type = type
    /\ v.geometry.coordinates = coordinates

\* the first ring of a Polygon's coordinates
OuterRing(polygon) == polygon.coordinates[1]

\* the collaborator calls the ended call makes when none of them raises
CallsWithoutFailure ==
    CASE call.fn = "circle" ->
            circle(call.center, call.radius, call.steps, call.units,
                   call.kwargs, 0).calls
      [] call.fn = "polygon_difference" ->
            polygon_difference(call.polygon1, call.polygon2, 0).calls
      [] call.fn = "_remove_empty_polygon" ->
            _remove_empty_polygon(call.geom, <<>>, 0).calls

\* i times the fraction f
Times(i, f) == TrueDiv(i * f[1], f[2])

-----------------------------------------------------------------------------
(* C1: when both arguments of polygon_difference normalize to non-empty,   *)
(* the result follows the number of contours of the DIFFERENCE: none gives *)
(* null, one gives a Feature wrapping a Polygon of that contour, more give *)
(* a Feature wrapping a MultiPolygon of all the contours.                  *)
C1_ResultFollowsContours ==
    (/\ Ended("polygon_difference")
     /\ NoFailure
     /\ NormalizesNonEmpty(call.polygon1)
     /\ NormalizesNonEmpty(call.polygon2))
    => LET contours == compute(Normalized(call.polygon1),
                               Normalized(call.polygon2), "DIFFERENCE").contours
       IN  /\ result.kind = "return"
           /\ Len(contours) = 0 => result.value = None
           /\ Len(contours) = 1 => IsFeatureOf(result.value, "Polygon", contours)
           /\ Len(contours) > 1 =>
                \/ IsFeatureOf(result.value, "MultiPolygon", contours)
                \/ IsFeatureOf(result.value, "MultiPolygon",
                               [i \in 1..Len(contours) |-> <<contours[i]>>])

(* C2: for polygon1 normalizing to non-empty and polygon2 normalizing to   *)
(* empty, polygon_difference returns a Feature whose geometry is the       *)
(* normalized polygon1 and whose properties are empty.                     *)
C2_EmptySubtrahendGivesPolygon1 ==
    (/\ Ended("polygon_difference")
     /\ NoFailure
     /\ NormalizesNonEmpty(call.polygon1)
     /\ NormalizesEmpty(call.polygon2))
    => /\ result.kind = "return"
       /\ result.value.type = "Feature"
       /\ result.value.geometry = Normalized(call.polygon1)
       /\ result.value.properties = Dict({})

(* C3: for polygon1 normalizing to empty, polygon_difference returns null  *)
(* whatever polygon2 is, also when polygon2 normalizes to empty too.       *)
C3_EmptyMinuendGivesNull ==
    (/\ Ended("polygon_difference")
     /\ NoFailure
     /\ NormalizesEmpty(call.polygon1))
    => /\ result.kind = "return"
       /\ result.value = None

C3_Witness ==
    /\ Ended("polygon_difference")
    /\ NoFailure
    /\ NormalizesEmpty(call.polygon1)
    /\ NormalizesEmpty(call.polygon2)
    /\ IsMultiPolygon(call.polygon1)
    /\ Len(call.polygon1.coordinates) > 0
    /\ result.value = None

(* C4: for radius > 0 and steps >= 3, circle returns a Polygon whose outer *)
(* ring has exactly steps + 1 coordinates, the first and the last of them  *)
(* identical.                                                              *)
C4_ClosedRingOfStepsPlusOne ==
    (/\ Ended("circle")
     /\ NoFailure
     /\ call.radius > 0
     /\ call.steps >= 3)
    => /\ result.kind = "return"
       /\ result.value.type = "Polygon"
       /\ Len(OuterRing(result.value)) = call.steps + 1
       /\ OuterRing(result.value)[1] = OuterRing(result.value)[call.steps + 1]

(* C5: for a Polygon P of area > 1, the clipping primitive being the exact *)
(* set difference, polygon_difference(P, P) returns null.                  *)
C5_SelfDifferenceIsNull ==
    (/\ Ended("polygon_difference")
     /\ NoFailure
     /\ IsPolygon(call.polygon1)
     /\ PolygonArea(call.polygon1.coordinates) > 1
     /\ call.polygon2 = call.polygon1)
    => /\ result.kind = "return"
       /\ result.value = None

C5_Witness ==
    /\ Ended("polygon_difference")
    /\ NoFailure
    /\ IsPolygon(call.polygon1)
    /\ PolygonArea(call.polygon1.coordinates) > 1
    /\ call.polygon2 = call.polygon1
    /\ Len(result.calls) = 3
    /\ result.calls[3].fn = "compute"
    /\ result.value = None

(* C6: a MultiPolygon all of whose sub-polygons have area <= 1 is treated  *)
(* as a Polygon of area <= 1 in the same position: as polygon1 the result  *)
(* is null, as polygon2 the result is the one for an empty Polygon.        *)
C6_AllSmallMultiPolygonIsEmpty ==
    (Ended("polygon_difference") /\ NoFailure)
    => /\ (IsMultiPolygon(call.polygon1) /\ Large(call.polygon1) = {})
            => result.kind = "return" /\ result.value = None
       /\ (IsMultiPolygon(call.polygon2) /\ Large(call.polygon2) = {})
            => \A q \in PolygonArgs :
                 PolygonArea(q.coordinates) <= 1
                 => /\ result.kind = "return"
                    /\ result.value = polygon_difference(call.polygon1, q, 0).value

C6_Witness ==
    /\ Ended("polygon_difference")
    /\ NoFailure
    /\ NormalizesNonEmpty(call.polygon1)
    /\ IsMultiPolygon(call.polygon2)
    /\ Len(call.polygon2.coordinates) = 2
    /\ Large(call.polygon2) = {}
    /\ result.kind = "return"
    /\ result.value # None

(* C7: when a collaborator call fails, the enclosing call fails with that  *)
(* same failure: nothing is returned, the failure is not turned into null, *)
(* and no collaborator is called after it (no retry).                      *)
C7_FailurePropagates ==
    (pc = "done" /\ call.fail # 0)
    => /\ result.kind = "raise"
       /\ Len(result.calls) = call.fail
       /\ result.error = [type |-> "Error",
                          raisedBy |-> result.calls[call.fail].fn,
                          at |-> call.fail]
       /\ result.calls = SubSeq(CallsWithoutFailure, 1, call.fail)

C7_Witness ==
    /\ Ended("polygon_difference")
    /\ call.fail = 2
    /\ IsPolygon(call.polygon2)
    /\ NormalizesNonEmpty(call.polygon1)
    /\ result.kind = "raise"
    /\ result.error.raisedBy = "area"

(* C8: for a Polygon, _remove_empty_polygon returns the same geometry      *)
(* unchanged exactly when its area is greater than 1, and null when the    *)
(* area is 1 or less.                                                      *)
C8_PolygonKeptIffLarge ==
    (/\ Ended("_remove_empty_polygon")
     /\ NoFailure
     /\ IsPolygon(call.geom))
    => /\ result.kind = "return"
       /\ result.value = call.geom <=> PolygonArea(call.geom.coordinates) > 1
       /\ result.value = None <=> PolygonArea(call.geom.coordinates) <= 1

C8_Witness ==
    /\ Ended("_remove_empty_polygon")
    /\ NoFailure
    /\ IsPolygon(call.geom)
    /\ PolygonArea(call.geom.coordinates) = 1
    /\ result.value = None

(* C9: for a MultiPolygon with a sub-polygon of area > 1,                  *)
(* _remove_empty_polygon returns a MultiPolygon-shaped structure whose     *)
(* coordinates are those of the sub-polygons of area > 1, each once, in    *)
(* stored order, the others left out.                                      *)
C9_MultiPolygonKeepsLargeInOrder ==
    (/\ Ended("_remove_empty_polygon")
     /\ NoFailure
     /\ IsMultiPolygon(call.geom)
     /\ Large(call.geom) # {})
    => /\ result.kind = "return"
       /\ result.value.type = "MultiPolygon"
       /\ result.value.coordinates = Kept(call.geom)
       /\ Len(result.value.coordinates) = Cardinality(Large(call.geom))

C9_Witness ==
    /\ Ended("_remove_empty_polygon")
    /\ NoFailure
    /\ IsMultiPolygon(call.geom)
    /\ Len(call.geom.coordinates) = 2
    /\ Large(call.geom) = {1, 2}
    /\ Cells(call.geom.coordinates[1][1]) = {3, 4}
    /\ result.value.coordinates = call.geom.coordinates

====
